---- MODULE Spec2Model ----
(***************************************************************************)
(* Model of the video converter worker: VideoConverter.Handle and the      *)
(* steps of processVideo / mergeChunks (package converter), and the free   *)
(* functions IsProcessed, MarkProcess and RegisterError of idempotency.go. *)
(***************************************************************************)
EXTENDS Integers, Sequences, FiniteSets, TLC

(***************************************************************************)
(* Bounds of the model.                                                    *)
(***************************************************************************)
\* largest number of chunk files in a task directory
MaxChunks == 3
\* number of Handle invocations in one behaviour
MaxRuns == 2
\* number of calls of the idempotency.go functions in one behaviour
MaxCalls == 4

(***************************************************************************)
(* Characters and file names.  A chunk file <dir>/<base>.chunk is          *)
(* identified inside its directory by the character sequence <base>; the   *)
(* extension ".chunk" holds no digit.                                      *)
(***************************************************************************)
DigitChars == {"0", "1", "2", "3", "4", "5", "6", "7", "8", "9"}

DigitVal(c) ==
  CASE c = "0" -> 0 [] c = "1" -> 1 [] c = "2" -> 2 [] c = "3" -> 3
    [] c = "4" -> 4 [] c = "5" -> 5 [] c = "6" -> 6 [] c = "7" -> 7
    [] c = "8" -> 8 [] c = "9" -> 9

\* the decimal digits of the largest Go int (64 bit): 9223372036854775807
MaxIntDigits ==
  <<9, 2, 2, 3, 3, 7, 2, 0, 3, 6, 8, 5, 4, 7, 7, 5, 8, 0, 7>>

TwentyNines == [i \in 1..20 |-> "9"]

\* the base names a task directory may hold (index = identity of the file)
NameList ==
  << <<"1">>, <<"2">>, <<"1", "0">>, <<"0", "1">>,
     <<"p", "2", "x", "7">>, <<"a">>, <<"b">>, TwentyNines >>

NameSet == {NameList[i] : i \in 1..Len(NameList)}

NameIndex(n) == CHOOSE i \in 1..Len(NameList) : NameList[i] = n

(***************************************************************************)
(* extractNumber: regexp \d+ on the base name, strconv.Atoi, -1 on error.  *)
(***************************************************************************)
RECURSIVE DropNonDigits(_)
DropNonDigits(s) ==
  IF s = <<>> \/ Head(s) \in DigitChars THEN s ELSE DropNonDigits(Tail(s))

RECURSIVE TakeDigits(_)
TakeDigits(s) ==
  IF s = <<>> \/ Head(s) \notin DigitChars THEN <<>>
  ELSE <<Head(s)>> \o TakeDigits(Tail(s))

\* regexp.MustCompile(`\d+`).FindString: leftmost, longest run of digits, "" if none
FindString(s) == TakeDigits(DropNonDigits(s))

RECURSIVE StripZeros(_)
StripZeros(ds) ==
  IF Len(ds) > 1 /\ Head(ds) = "0" THEN StripZeros(Tail(ds)) ELSE ds

RECURSIVE DigitsGreater(_, _)
\* a > b for digit sequences of equal length
DigitsGreater(a, b) ==
  IF a = <<>> THEN FALSE
  ELSE IF DigitVal(Head(a)) # Head(b) THEN DigitVal(Head(a)) > Head(b)
  ELSE DigitsGreater(Tail(a), Tail(b))

RECURSIVE Horner(_, _)
Horner(acc, ds) ==
  IF ds = <<>> THEN acc ELSE Horner(acc * 10 + DigitVal(Head(ds)), Tail(ds))

\* strconv.Atoi on a string of digits: syntax error on "", range error above MaxInt
Atoi(ds) ==
  LET z == StripZeros(ds) IN
  IF ds = <<>> THEN [err |-> TRUE, val |-> 0]
  ELSE IF Len(z) > Len(MaxIntDigits)
          \/ (Len(z) = Len(MaxIntDigits) /\ DigitsGreater(z, MaxIntDigits))
       THEN [err |-> TRUE, val |-> 0]
  ELSE [err |-> FALSE, val |-> Horner(0, z)]

(***************************************************************************)
(* Paths are sequences of characters; a literal without digit or separator *)
(* ("merged.mp4" apart, which is only ever compared) is kept as one token. *)
(***************************************************************************)
Sep == "/"

\* filepath.Join of a directory and one element ("" joined with x is x)
Join(dir, elem) == IF dir = <<>> THEN elem ELSE dir \o <<Sep>> \o elem

RECURSIVE Base(_)
\* filepath.Base: what follows the last separator
Base(path) ==
  IF \E i \in 1..Len(path) : path[i] = Sep THEN Base(Tail(path)) ELSE path

ChunkExt == <<".chunk">>

extractNumber(fileName) ==
  LET r == Atoi(FindString(Base(fileName))) IN
  IF r.err THEN -1 ELSE r.val

\* the comparison function given to sort.Slice
Less(a, b) == extractNumber(a) < extractNumber(b)

\* the sequences that hold every element of the set S exactly once
Perms(S) ==
  {q \in [1..Cardinality(S) -> S] : \A x \in S : \E i \in DOMAIN q : q[i] = x}

\* sort.Slice is not stable: any ordering in which no later element is Less
\* than an earlier one may result
SortSlice(S) ==
  {q \in Perms(S) : \A i, j \in DOMAIN q : i < j => ~Less(q[j], q[i])}

(***************************************************************************)
(* Messages.  A message is the JSON text handed to Handle, kept as the     *)
(* value it denotes: no JSON at all, null, or an object whose fields       *)
(* video_id and path are absent, a number or a string.                     *)
(***************************************************************************)
Absent == [t |-> "absent"]
Num(n) == [t |-> "num", v |-> n]
Str(p) == [t |-> "str", v |-> p]
Object(id, path) == [kind |-> "object", video_id |-> id, path |-> path]

TaskDir == <<"/", "v", "/", "1">>
BadDir  == <<"/", "v", "/", "[">>
NoPath  == <<>>

MsgSet ==
  { [kind |-> "syntax"], [kind |-> "null"],
    Object(Num(1), Str(TaskDir)), Object(Num(1), Str(BadDir)),
    Object(Num(1), Absent), Object(Absent, Str(BadDir)),
    Object(Str(TaskDir), Str(TaskDir)) }

NoErr == <<>>

\* type VideoTask and its zero value
VideoTask(id, path) == [VideoID |-> id, Path |-> path]
ZeroTask == VideoTask(0, NoPath)

\* json.Unmarshal(msg, &task): a syntax error leaves task untouched; null is
\* accepted and sets nothing; a field of the wrong JSON type is skipped and
\* reported after the other fields are set; an absent field is left zero
Unmarshal(msg) ==
  IF msg.kind = "syntax"
    THEN [task |-> ZeroTask, err |-> <<"invalid character">>]
  ELSE IF msg.kind = "null"
    THEN [task |-> ZeroTask, err |-> NoErr]
  ELSE
    [task |-> VideoTask(IF msg.video_id.t = "num" THEN msg.video_id.v ELSE 0,
                        IF msg.path.t = "str" THEN msg.path.v ELSE NoPath),
     err  |-> IF msg.video_id.t = "str" \/ msg.path.t = "num"
                THEN <<"json: cannot unmarshal">> ELSE NoErr]

(***************************************************************************)
(* State.                                                                  *)
(***************************************************************************)
Workers == {"w1", "w2"}
NoFd == [open |-> FALSE]

VARIABLES
  fs,         \* the regular files: path -> bytes
  dirsMade,   \* the directories made by os.MkdirAll
  pc,         \* per worker: where its Handle invocation stands ("idle": none)
  msg,        \* per worker: the argument of its Handle invocation
  task,       \* per worker: the decoded VideoTask
  chunks,     \* per worker: mergeChunks' sorted slice of chunk paths
  idx,        \* per worker: index of the chunk the merge loop is at
  outFd,      \* per worker: the handle os.Create returned (file, offset)
  inFds,      \* per worker: the chunk paths it holds an open handle of
  mergeRet,   \* per worker: what its last mergeChunks call returned
  ffInput,    \* per worker: the bytes its last ffmpeg invocation was given
  ffResult,   \* per worker: what CombinedOutput returned (output, err)
  stages,     \* per worker: the stages its invocation has entered
  truncated,  \* per worker: os.Create found a merged file and truncated it
  logs,       \* per worker: the records logError wrote in its last invocation
  outcome,    \* per worker: how its last invocation ended
  runs,       \* number of Handle invocations so far
  completed,  \* the video ids some Handle invocation ended without error for
  processed,  \* table processed_videos
  errorsLog,  \* table process_errors_log
  calls,      \* number of calls of the idempotency.go functions so far
  checked,    \* the video ids IsProcessed was called with
  seen,       \* per worker: its last IsProcessed call (id, result)
  markRet,    \* per worker: its last MarkProcess call (id, error returned)
  marksOk,    \* per video id: the MarkProcess calls that returned nil
  regRet,     \* per worker: how its last RegisterError call ended
  lookupErr   \* per worker: the error of the query of its last IsProcessed call

pipeVars == <<fs, dirsMade, pc, msg, task, chunks, idx, outFd, inFds, mergeRet,
              ffInput, ffResult, stages, truncated, logs, outcome, runs, completed>>
storeVars == <<processed, errorsLog, calls, checked, seen, markRet, marksOk, regRet,
               lookupErr>>
vars == <<pipeVars, storeVars>>

(***************************************************************************)
(* The file system.                                                        *)
(***************************************************************************)
ChunkPath(dir, n) == Join(dir, n \o ChunkExt)

\* the bytes of the chunk files: a byte that tells the file, followed by a
\* second byte in every third file; one file is empty
ChunkBytes(n) ==
  LET i == NameIndex(n) IN
  IF i % 3 = 0 THEN <<i, 0>> ELSE IF i = 7 THEN <<>> ELSE <<i>>

Exists(f) == f \in DOMAIN fs

\* the file system with file f holding data
WithFile(files, f, data) ==
  [g \in DOMAIN files \cup {f} |-> IF g = f THEN data ELSE files[g]]

WithoutFile(files, f) == [g \in DOMAIN files \ {f} |-> files[g]]

\* a removal that reports success and leaves the file
RemoveFileKept(files, f) == files

\* os.Remove(f) of an existing file
RemoveFile(files, f) == WithoutFile(files, f)

\* a creation that leaves the bytes of a file that exists (no O_TRUNC)
CreateKept(files, f) == IF f \in DOMAIN files THEN files ELSE WithFile(files, f, <<>>)

\* os.Create(f): the file is created, or truncated when it exists
Create(files, f) == WithFile(files, f, <<>>)

\* a write of bytes at offset off of a file holding old (a hole reads as 0)
WriteAt(old, off, bytes) ==
  LET n == IF off + Len(bytes) > Len(old) THEN off + Len(bytes) ELSE Len(old) IN
  [i \in 1..n |->
     IF i > off /\ i <= off + Len(bytes) THEN bytes[i - off]
     ELSE IF i <= Len(old) THEN old[i] ELSE 0]

\* filepath.Glob reports a malformed pattern: a "[" that is never closed
BadPattern(pattern) ==
  \E i \in 1..Len(pattern) :
    pattern[i] = "[" /\ ~\E j \in (i + 1)..Len(pattern) : pattern[j] = "]"

\* filepath.Glob(filepath.Join(inputDir, "*.chunk")): the entries of inputDir
\* whose name ends in .chunk
Glob(inputDir) ==
  {f \in DOMAIN fs : f[Len(f)] = ".chunk" /\ f = Join(inputDir, Base(f))}

\* one merged file for every task
mergedFileShared(t) == Join(TaskDir, <<"merged.mp4">>)

mergedFile(t) == Join(t.Path, <<"merged.mp4">>)
mpegDashPath(t) == Join(t.Path, <<"mpeg-dash">>)
manifestPath(t) == Join(mpegDashPath(t), <<"output.mpd">>)

\* a byte that is no part of a valid UTF-8 sequence, and the rune U+FFFD
InvalidByte == "0xFF"
ReplacementRune == "U+FFFD"

\* the manifest the external encoder writes (its bytes are the encoder's own)
Manifest == <<"mpd">>

\* the ways the ffmpeg invocation fails: a non-zero exit with its combined
\* output, or a failure to launch with no output
FfFailures ==
  { [out |-> <<"Invalid data found when processing input">>,
     err |-> <<"exit status 1">>],
    [out |-> <<"Error opening input file ", InvalidByte, ".mp4">>,
     err |-> <<"exit status 1">>],
    [out |-> <<>>, err |-> <<"exec: \"ffmpeg\": executable file not found">>] }

\* no ffmpeg invocation yet
NoResult == [out |-> <<>>, err |-> <<"none">>]

\* a message that leaves the output out
convertMessageBare(output) == <<"failed to convert video to mpeg-dash, output: ">>

\* "failed to convert video to mpeg-dash, output: "+string(output)
convertMessage(output) == <<"failed to convert video to mpeg-dash, output: ">> \o output

OsError == <<"os error">>

(***************************************************************************)
(* logError: the record is serialised and logged; nothing is stored.       *)
(***************************************************************************)
ErrorData(t, message, err) ==
  [video_id |-> t.VideoID, error |-> message, details |-> err]

logError(l, t, message, err) == Append(l, ErrorData(t, message, err))

(***************************************************************************)
(* The durable store, as idempotency.go uses it.  Every function makes one *)
(* statement, which the database runs atomically or rejects.               *)
(***************************************************************************)
IdSet == {1, 2}
NoCall == [id |-> 0]

\* SELECT EXISTS(SELECT 1 FROM processed_videos where video_id = $1 and status='success')
SelectExists(rows, videoID) ==
  \E i \in 1..Len(rows) : rows[i].video_id = videoID /\ rows[i].status = "success"

\* the uniqueness constraint of processed_videos on successful records
UniqueViolation(rows, row) ==
  row.status = "success" /\ SelectExists(rows, row.video_id)

\* the error db.Exec returns for the INSERT of MarkProcess
ExecInsertProcessed(rows, row, up) ==
  IF ~up THEN <<"connection refused">>
  ELSE IF UniqueViolation(rows, row) THEN <<"duplicate key value">>
  ELSE NoErr

\* a MarkProcess that logs the error of Exec and returns nil
MarkProcessSwallow(dbErr) == NoErr

\* MarkProcess returns the error of Exec
MarkProcessReturn(dbErr) == dbErr

\* json.Marshal of a string: quoted, each byte that is no valid UTF-8 replaced
\* by the escape of U+FFFD (the escapes of valid text are undone by a decoder)
JsonString(str) ==
  <<"\"">> \o [i \in 1..Len(str) |-> IF str[i] = InvalidByte THEN "\\ufffd" ELSE str[i]]
         \o <<"\"">>

\* json.Marshal of the error record
Marshal(errorData) ==
  [json |-> [video_id |-> errorData.video_id,
             error    |-> JsonString(errorData.error),
             details  |-> JsonString(errorData.details)]]

ErrorInputs ==
  { [data |-> ErrorData(VideoTask(1, TaskDir), <<"failed to merge chunks">>, OsError),
     err  |-> OsError],
    [data |-> ErrorData(ZeroTask, <<"failed to unmarshal task">>, <<"invalid character">>),
     err  |-> NoErr] }

(***************************************************************************)
(* Initial state: a task directory of at most MaxChunks chunk files, no    *)
(* merged file, empty tables.                                              *)
(***************************************************************************)
TaskDirFiles(D) ==
  [f \in {ChunkPath(TaskDir, n) : n \in D} |->
     ChunkBytes(CHOOSE n \in D : ChunkPath(TaskDir, n) = f)]

InitRest ==
  /\ dirsMade = {}
  /\ pc = [w \in Workers |-> "idle"]
  /\ msg = [w \in Workers |-> [kind |-> "null"]]
  /\ task = [w \in Workers |-> ZeroTask]
  /\ chunks = [w \in Workers |-> <<>>]
  /\ idx = [w \in Workers |-> 0]
  /\ outFd = [w \in Workers |-> NoFd]
  /\ inFds = [w \in Workers |-> {}]
  /\ mergeRet = [w \in Workers |-> <<"none">>]
  /\ ffInput = [w \in Workers |-> <<"none">>]
  /\ ffResult = [w \in Workers |-> NoResult]
  /\ stages = [w \in Workers |-> <<>>]
  /\ truncated = [w \in Workers |-> FALSE]
  /\ logs = [w \in Workers |-> <<>>]
  /\ outcome = [w \in Workers |-> "none"]
  /\ runs = 0
  /\ completed = {}
  /\ processed = <<>>
  /\ errorsLog = <<>>
  /\ calls = 0
  /\ checked = {}
  /\ seen = [w \in Workers |-> NoCall]
  /\ markRet = [w \in Workers |-> NoCall]
  /\ marksOk = [i \in IdSet |-> 0]
  /\ regRet = [w \in Workers |-> "none"]
  /\ lookupErr = [w \in Workers |-> NoErr]

Init ==
  /\ \E D \in SUBSET NameSet :
       /\ Cardinality(D) <= MaxChunks
       /\ fs = TaskDirFiles(D)
  /\ InitRest

\* the store's functions do not look at the files: one task directory
InitStore ==
  /\ fs = TaskDirFiles({NameList[1], NameList[2]})
  /\ InitRest

(***************************************************************************)
(* Handle.  Each action is one step of an invocation: a file system call,  *)
(* or the external process, with the local computation around it.          *)
(***************************************************************************)
\* a stage that failed and went on to the next one
returnErrGoOn(at) == IF at = "ffmpeg" THEN "remove" ELSE "idle"

\* where the invocation stands after "return err" at stage at: it is over
returnErr(at) == "idle"

\* processVideo reports a failed stage and returns the error; Handle reports
\* it again and returns
ReturnError(w, message, err) ==
  /\ logs' = [logs EXCEPT ![w] =
                logError(logError(@, task[w], message, err),
                         task[w], <<"failed to process video">>, err)]
  /\ pc' = [pc EXCEPT ![w] = returnErr(pc[w])]
  /\ outcome' = [outcome EXCEPT ![w] = "failed"]

\* mergeChunks returns err (its deferred output.Close runs, its locals are
\* gone) and processVideo gives up
MergeFails(w, err) ==
  /\ mergeRet' = [mergeRet EXCEPT ![w] = err]
  /\ outFd' = [outFd EXCEPT ![w] = NoFd]
  /\ chunks' = [chunks EXCEPT ![w] = <<>>]
  /\ idx' = [idx EXCEPT ![w] = 0]
  /\ ReturnError(w, <<"failed to merge chunks">>, err)

\* Handle(msg): decode, report a decode error and return, else processVideo
HandleStart(w, m) ==
  LET r == Unmarshal(m) IN
  /\ pc[w] = "idle"
  /\ runs < MaxRuns
  /\ runs' = runs + 1
  /\ msg' = [msg EXCEPT ![w] = m]
  /\ task' = [task EXCEPT ![w] = r.task]
  /\ mergeRet' = [mergeRet EXCEPT ![w] = <<"none">>]
  /\ ffInput' = [ffInput EXCEPT ![w] = <<"none">>]
  /\ ffResult' = [ffResult EXCEPT ![w] = NoResult]
  /\ stages' = [stages EXCEPT ![w] = <<>>]
  /\ truncated' = [truncated EXCEPT ![w] = FALSE]
  /\ IF r.err # NoErr
       THEN /\ logs' = [logs EXCEPT ![w] =
                          logError(<<>>, r.task, <<"failed to unmarshal task">>, r.err)]
            /\ outcome' = [outcome EXCEPT ![w] = "failed"]
            /\ pc' = pc
       ELSE /\ logs' = [logs EXCEPT ![w] = <<>>]
            /\ outcome' = [outcome EXCEPT ![w] = "running"]
            /\ pc' = [pc EXCEPT ![w] = "glob"]
  /\ UNCHANGED <<fs, dirsMade, chunks, idx, outFd, inFds, completed, storeVars>>

\* mergeChunks: filepath.Glob and sort.Slice
MergeGlob(w) ==
  /\ pc[w] = "glob"
  /\ stages' = [stages EXCEPT ![w] = Append(@, "merge")]
  /\ IF BadPattern(Join(task[w].Path, <<"*.chunk">>))
       THEN MergeFails(w, <<"failed to find chunks: ">> \o <<"syntax error in pattern">>)
       ELSE /\ \E q \in SortSlice(Glob(task[w].Path)) :
                 chunks' = [chunks EXCEPT ![w] = q]
            /\ pc' = [pc EXCEPT ![w] = "create"]
            /\ UNCHANGED <<idx, mergeRet, outFd, logs, outcome>>
  /\ UNCHANGED <<fs, dirsMade, msg, task, inFds, ffInput, ffResult, truncated, runs,
                 completed, storeVars>>

\* mergeChunks: os.Create(outputFile) creates or truncates the file
MergeCreate(w) ==
  /\ pc[w] = "create"
  /\ \E ok \in BOOLEAN :
       IF ok
         THEN /\ fs' = Create(fs, mergedFile(task[w]))
              /\ truncated' = [truncated EXCEPT ![w] = Exists(mergedFile(task[w]))]
              /\ outFd' = [outFd EXCEPT ![w] =
                             [open |-> TRUE, file |-> mergedFile(task[w]), off |-> 0]]
              /\ idx' = [idx EXCEPT ![w] = 1]
              /\ pc' = [pc EXCEPT ![w] = "open"]
              /\ UNCHANGED <<chunks, mergeRet, logs, outcome>>
         ELSE /\ MergeFails(w, <<"failed to create output file: ">> \o OsError)
              /\ UNCHANGED <<fs, truncated>>
  /\ UNCHANGED <<dirsMade, msg, task, inFds, ffInput, ffResult, stages, runs, completed,
                 storeVars>>

\* mergeChunks: the loop head; os.Open of the next chunk, or return nil
MergeOpen(w) ==
  /\ pc[w] = "open"
  /\ IF idx[w] > Len(chunks[w])
       THEN /\ mergeRet' = [mergeRet EXCEPT ![w] = NoErr]
            /\ outFd' = [outFd EXCEPT ![w] = NoFd]
            /\ chunks' = [chunks EXCEPT ![w] = <<>>]
            /\ idx' = [idx EXCEPT ![w] = 0]
            /\ pc' = [pc EXCEPT ![w] = "mkdir"]
            /\ UNCHANGED <<inFds, logs, outcome>>
       ELSE \E ok \in BOOLEAN :
              IF ok
                THEN /\ inFds' = [inFds EXCEPT ![w] = @ \cup {chunks[w][idx[w]]}]
                     /\ pc' = [pc EXCEPT ![w] = "copy"]
                     /\ UNCHANGED <<chunks, idx, mergeRet, outFd, logs, outcome>>
                ELSE /\ MergeFails(w, <<"failed to open chunk: ">> \o OsError)
                     /\ UNCHANGED inFds
  /\ UNCHANGED <<fs, dirsMade, msg, task, ffInput, ffResult, stages, truncated, runs,
                 completed, storeVars>>

\* mergeChunks: output.ReadFrom(input) copies the chunk, or fails after some
\* of its bytes (the input handle is then not closed)
MergeCopy(w) ==
  LET data == fs[chunks[w][idx[w]]]
      out == outFd[w]
  IN
  /\ pc[w] = "copy"
  /\ \E ok \in BOOLEAN, k \in 0..Len(data) :
       /\ ok => k = Len(data)
       /\ fs' = IF Exists(out.file)
                  THEN WithFile(fs, out.file, WriteAt(fs[out.file], out.off, SubSeq(data, 1, k)))
                  ELSE fs
       /\ IF ok
            THEN /\ outFd' = [outFd EXCEPT ![w].off = @ + k]
                 /\ pc' = [pc EXCEPT ![w] = "close"]
                 /\ UNCHANGED <<chunks, idx, mergeRet, logs, outcome>>
            ELSE MergeFails(w, <<"failed to write chunk to merged file: ">> \o OsError)
  /\ UNCHANGED <<dirsMade, msg, task, inFds, ffInput, ffResult, stages, truncated, runs,
                 completed, storeVars>>

\* mergeChunks: input.Close() and the next iteration
MergeClose(w) ==
  /\ pc[w] = "close"
  /\ inFds' = [inFds EXCEPT ![w] = @ \ {chunks[w][idx[w]]}]
  /\ idx' = [idx EXCEPT ![w] = @ + 1]
  /\ pc' = [pc EXCEPT ![w] = "open"]
  /\ UNCHANGED <<fs, dirsMade, msg, task, chunks, outFd, mergeRet, ffInput, ffResult,
                 stages, truncated, logs, outcome, runs, completed, storeVars>>

\* processVideo: os.MkdirAll(mpegDashPath)
MkdirAll(w) ==
  /\ pc[w] = "mkdir"
  /\ stages' = [stages EXCEPT ![w] = Append(@, "mkdir")]
  /\ \E ok \in BOOLEAN :
       IF ok
         THEN /\ dirsMade' = dirsMade \cup {mpegDashPath(task[w])}
              /\ pc' = [pc EXCEPT ![w] = "ffmpeg"]
              /\ UNCHANGED <<logs, outcome>>
         ELSE /\ ReturnError(w, <<"failed to create mpeg-dash directory">>, OsError)
              /\ UNCHANGED dirsMade
  /\ UNCHANGED <<fs, msg, task, chunks, idx, outFd, inFds, mergeRet, ffInput, ffResult,
                 truncated, runs, completed, storeVars>>

\* processVideo: ffmpeg -i mergedFile -f dash output.mpd, CombinedOutput.  The
\* encoder cannot succeed on a missing or empty input.
Ffmpeg(w) ==
  LET in == mergedFile(task[w])
      input == IF Exists(in) THEN fs[in] ELSE <<>>
  IN
  /\ pc[w] = "ffmpeg"
  /\ stages' = [stages EXCEPT ![w] = Append(@, "ffmpeg")]
  /\ ffInput' = [ffInput EXCEPT ![w] = input]
  /\ \/ /\ input # <<>>
        /\ fs' = WithFile(fs, manifestPath(task[w]), Manifest)
        /\ ffResult' = [ffResult EXCEPT ![w] = [out |-> <<>>, err |-> NoErr]]
        /\ pc' = [pc EXCEPT ![w] = "remove"]
        /\ UNCHANGED <<logs, outcome>>
     \/ /\ \E f \in FfFailures :
             /\ ffResult' = [ffResult EXCEPT ![w] = f]
             /\ ReturnError(w, convertMessage(f.out), f.err)
        /\ UNCHANGED fs
  /\ UNCHANGED <<dirsMade, msg, task, chunks, idx, outFd, inFds, mergeRet, truncated, runs,
                 completed, storeVars>>

\* processVideo: os.Remove(mergedFile), then Handle returns
RemoveMerged(w) ==
  /\ pc[w] = "remove"
  /\ stages' = [stages EXCEPT ![w] = Append(@, "remove")]
  /\ \/ /\ Exists(mergedFile(task[w]))
        /\ fs' = RemoveFile(fs, mergedFile(task[w]))
        /\ pc' = [pc EXCEPT ![w] = "idle"]
        /\ outcome' = [outcome EXCEPT ![w] = "ok"]
        /\ completed' = completed \cup {task[w].VideoID}
        /\ UNCHANGED logs
     \/ /\ ReturnError(w, <<"failed to remove merged file">>, OsError)
        /\ UNCHANGED <<fs, completed>>
  /\ UNCHANGED <<dirsMade, msg, task, chunks, idx, outFd, inFds, mergeRet, ffInput,
                 ffResult, truncated, runs, storeVars>>

(***************************************************************************)
(* The functions of idempotency.go, called by any worker with any id.      *)
(***************************************************************************)
\* IsProcessed(db, videoID): the query result, false when the query fails
IsProcessed(w, videoID) ==
  /\ calls < MaxCalls
  /\ calls' = calls + 1
  /\ checked' = checked \cup {videoID}
  /\ \E up \in BOOLEAN :
       /\ lookupErr' = [lookupErr EXCEPT ![w] =
                          IF up THEN NoErr ELSE <<"connection refused">>]
       /\ seen' = [seen EXCEPT ![w] =
                     [id |-> videoID,
                      res |-> IF up THEN SelectExists(processed, videoID) ELSE FALSE]]
  /\ UNCHANGED <<processed, errorsLog, markRet, marksOk, regRet, pipeVars>>

\* MarkProcess(db, videoID): INSERT of a success row; the error of Exec is returned
MarkProcess(w, videoID) ==
  LET row == [video_id |-> videoID, status |-> "success"] IN
  /\ calls < MaxCalls
  /\ calls' = calls + 1
  /\ \E up \in BOOLEAN :
       LET dbErr == ExecInsertProcessed(processed, row, up)
           ret == MarkProcessReturn(dbErr)
       IN
       /\ processed' = IF dbErr = NoErr THEN Append(processed, row) ELSE processed
       /\ markRet' = [markRet EXCEPT ![w] = [id |-> videoID, err |-> ret]]
       /\ marksOk' = IF ret = NoErr THEN [marksOk EXCEPT ![videoID] = @ + 1] ELSE marksOk
  /\ UNCHANGED <<errorsLog, checked, seen, regRet, lookupErr, pipeVars>>

\* RegisterError(db, errorData, err): INSERT of the serialised record; a failed
\* insert is logged; after a successful one err.Error() is logged, which
\* panics when err is nil
RegisterError(w, in) ==
  /\ calls < MaxCalls
  /\ calls' = calls + 1
  /\ \E up \in BOOLEAN :
       /\ errorsLog' = IF up THEN Append(errorsLog, Marshal(in.data)) ELSE errorsLog
       /\ regRet' = [regRet EXCEPT ![w] =
                       IF ~up THEN "db error"
                       ELSE IF in.err = NoErr THEN "panic" ELSE "stored"]
  /\ UNCHANGED <<processed, checked, seen, markRet, marksOk, lookupErr, pipeVars>>

NextStore ==
  \/ \E w \in Workers, i \in IdSet : IsProcessed(w, i)
  \/ \E w \in Workers, i \in IdSet : MarkProcess(w, i)
  \/ \E w \in Workers, in \in ErrorInputs : RegisterError(w, in)

SpecStore == InitStore /\ [][NextStore]_vars

\* one worker, one invocation at a time
Next ==
  \/ \E m \in MsgSet : HandleStart("w1", m)
  \/ MergeGlob("w1")
  \/ MergeCreate("w1")
  \/ MergeOpen("w1")
  \/ MergeCopy("w1")
  \/ MergeClose("w1")
  \/ MkdirAll("w1")
  \/ Ffmpeg("w1")
  \/ RemoveMerged("w1")

Spec == Init /\ [][Next]_vars

\* the merged file an earlier attempt left, of more bytes than the chunks
\* the directory holds now
StaleBytes == <<9, 9, 9, 9, 9, 9, 9, 9, 9>>

\* a retry: the task directory holds chunks and the merged file of an earlier
\* attempt that failed after its merge
InitRetry ==
  /\ \E D \in SUBSET {NameList[1], NameList[2], NameList[4], NameList[6]} :
       /\ Cardinality(D) <= MaxChunks
       /\ fs = WithFile(TaskDirFiles(D), Join(TaskDir, <<"merged.mp4">>), StaleBytes)
  /\ InitRest

SpecRetry == InitRetry /\ [][Next]_vars

\* two workers, each with a task of its own: its own video id and directory
TaskDir2 == <<"/", "v", "/", "2">>

TaskOf(w) ==
  IF w = "w1" THEN Object(Num(1), Str(TaskDir)) ELSE Object(Num(2), Str(TaskDir2))

DirFiles(dir, D) ==
  [f \in {ChunkPath(dir, n) : n \in D} |->
     ChunkBytes(CHOOSE n \in D : ChunkPath(dir, n) = f)]

InitConc ==
  /\ fs = DirFiles(TaskDir, {NameList[1], NameList[4]})
            @@ DirFiles(TaskDir2, {NameList[2], NameList[3]})
  /\ InitRest

\* the Handle invocations of the two workers run concurrently: their steps
\* interleave in every way
NextConc ==
  \E w \in Workers :
    \/ HandleStart(w, TaskOf(w))
    \/ MergeGlob(w)
    \/ MergeCreate(w)
    \/ MergeOpen(w)
    \/ MergeCopy(w)
    \/ MergeClose(w)
    \/ MkdirAll(w)
    \/ Ffmpeg(w)
    \/ RemoveMerged(w)

SpecConc == InitConc /\ [][NextConc]_vars

(***************************************************************************)
(* Properties.                                                             *)
(***************************************************************************)
Running(w) == pc[w] # "idle"
Returned(w) == pc[w] = "idle" /\ outcome[w] \in {"ok", "failed"}

\* the bytes of the files of q, one after the other
RECURSIVE Concat(_)
Concat(q) == IF q = <<>> THEN <<>> ELSE fs[Head(q)] \o Concat(Tail(q))

\* the integer a base name holds: its first run of digits, without leading zeros
Embedded(f) == StripZeros(FindString(Base(f)))
HasInteger(f) == FindString(Base(f)) # <<>>

RECURSIVE DigitsBelow(_, _)
\* a < b for digit sequences of equal length
DigitsBelow(a, b) ==
  IF a = <<>> THEN FALSE
  ELSE IF Head(a) # Head(b) THEN DigitVal(Head(a)) < DigitVal(Head(b))
  ELSE DigitsBelow(Tail(a), Tail(b))

\* the order of the embedded integers, whatever their size
IntegerBelow(f, g) ==
  \/ Len(Embedded(f)) < Len(Embedded(g))
  \/ Len(Embedded(f)) = Len(Embedded(g)) /\ DigitsBelow(Embedded(f), Embedded(g))

\* the orderings of the files S that ascend by embedded integer
Ascending(S) ==
  {q \in Perms(S) : \A i, j \in DOMAIN q : i < j => ~IntegerBelow(q[j], q[i])}

MergeSucceeded(w) == pc[w] = "mkdir" /\ mergeRet[w] = NoErr

\* C1: when mergeChunks has succeeded on a directory whose chunk names all
\* hold an integer, the merged file is the concatenation of the chunks in an
\* order ascending by that integer, each chunk once.
C1_MergedAscending ==
  \A w \in Workers :
    (MergeSucceeded(w) /\ \A f \in Glob(task[w].Path) : HasInteger(f))
      => /\ Exists(mergedFile(task[w]))
         /\ \E q \in Ascending(Glob(task[w].Path)) :
              fs[mergedFile(task[w])] = Concat(q)

\* the same, for names whose integer a Go int holds
InRange(f) == HasInteger(f) /\ ~Atoi(FindString(Base(f))).err

MergedAscendingInRange ==
  \A w \in Workers :
    (MergeSucceeded(w) /\ \A f \in Glob(task[w].Path) : InRange(f))
      => /\ Exists(mergedFile(task[w]))
         /\ \E q \in Ascending(Glob(task[w].Path)) :
              fs[mergedFile(task[w])] = Concat(q)

SuccessRows(videoID) ==
  Cardinality({i \in 1..Len(processed) :
                 processed[i].video_id = videoID /\ processed[i].status = "success"})

AtMostOneSuccessRecord == \A i \in IdSet \cup {0} : SuccessRows(i) <= 1

\* C2: of two Handle invocations for one video id, run one after the other,
\* the second does not again end in success once the first has, and the store
\* never holds two success records for the id.
C2_SecondRunNoSuccess ==
  /\ []AtMostOneSuccessRecord
  /\ [][\A w \in Workers :
          (pc[w] = "remove" /\ pc'[w] = "idle" /\ outcome'[w] = "ok")
            => task[w].VideoID \notin completed]_vars

\* C3: however the IsProcessed and MarkProcess calls of two workers
\* interleave, at most one MarkProcess call for a video id returns nil, and
\* the table holds at most one success row for the id.
C3_AtMostOneMarkWins ==
  \A i \in IdSet : marksOk[i] <= 1 /\ SuccessRows(i) <= 1

\* both workers have seen IsProcessed = false for id 1 and have called
\* MarkProcess for it: one insert went in, the other was rejected
C3_Witness ==
  /\ seen["w1"] = [id |-> 1, res |-> FALSE]
  /\ seen["w2"] = [id |-> 1, res |-> FALSE]
  /\ markRet["w1"] = [id |-> 1, err |-> NoErr]
  /\ markRet["w2"] = [id |-> 1, err |-> <<"duplicate key value">>]
  /\ SuccessRows(1) = 1

\* C4: an invocation that has entered processVideo (mergeChunks is the first
\* thing it does) has had IsProcessed consulted for its video id, and the id
\* has no success record.
C4_CheckedBeforeMerge ==
  \A w \in Workers :
    Running(w) => /\ task[w].VideoID \in checked
                  /\ ~SelectExists(processed, task[w].VideoID)

\* C5: an invocation that ended without failure has removed the merged file
\* and has a success record for its video id.
C5_CompletedAfterMark ==
  \A w \in Workers :
    (pc[w] = "idle" /\ outcome[w] = "ok")
      => /\ ~Exists(mergedFile(task[w]))
         /\ SelectExists(processed, task[w].VideoID)

\* a message that is no JSON object, or lacks video_id or path, or holds one
\* of the wrong type
Defective(m) ==
  m.kind # "object" \/ m.video_id.t # "num" \/ m.path.t # "str"

\* C6: with no chunk file in the directory of a well-formed task mergeChunks
\* does not get as far as creating the merged file, returns an error, and the
\* invocation never reaches the encoder.
C6_EmptyDirFails ==
  \A w \in Workers :
    (outcome[w] # "none" /\ ~Defective(msg[w]) /\ Glob(task[w].Path) = {})
      => /\ pc[w] \in {"idle", "glob", "create"}
         /\ mergeRet[w] # NoErr

ChunkIoErrors == {"failed to open chunk: ", "failed to write chunk to merged file: "}

\* C7: when mergeChunks has returned because a chunk could not be opened or
\* copied, no merged file exists.
C7_NoPartialFile ==
  \A w \in Workers :
    (pc[w] = "idle" /\ Head(mergeRet[w]) \in ChunkIoErrors)
      => ~Exists(mergedFile(task[w]))

\* C8: an invocation that ended in failure has logged it and has stored it in
\* process_errors_log, unless the insert was attempted and failed.
C8_FailurePersisted ==
  \A w \in Workers :
    (pc[w] = "idle" /\ outcome[w] = "failed")
      => /\ logs[w] # <<>>
         /\ \/ regRet[w] = "db error"
            \/ \E i \in 1..Len(errorsLog), k \in 1..Len(logs[w]) :
                 errorsLog[i] = Marshal(logs[w][k])

\* C9: when Handle has returned, with or without failure, no merged file is
\* left under the task path.
C9_NoMergedFileAfterReturn ==
  \A w \in Workers : Returned(w) => ~Exists(mergedFile(task[w]))

\* C9 as amended: when Handle has returned without failure, no merged file is
\* left under the task path.
C9_NoMergedFileAfterSuccess ==
  \A w \in Workers :
    (pc[w] = "idle" /\ outcome[w] = "ok") => ~Exists(mergedFile(task[w]))

\* an invocation has merged three chunks, encoded them and returned without failure
C9_Witness ==
  /\ pc["w1"] = "idle" /\ outcome["w1"] = "ok"
  /\ Len(ffInput["w1"]) >= 3 /\ ffInput["w1"] # <<"none">>
  /\ Exists(manifestPath(task["w1"]))

\* C10: an invocation given a defective message reports a decode failure and
\* returns: it never enters processVideo.
C10_DefectiveMessageAborts ==
  \A w \in Workers :
    (outcome[w] # "none" /\ Defective(msg[w]))
      => /\ pc[w] = "idle" /\ outcome[w] = "failed"
         /\ mergeRet[w] = <<"none">>
         /\ Len(logs[w]) = 1
         /\ logs[w][1].error = <<"failed to unmarshal task">>

\* the string a JSON decoder reads from a JSON string
JsonUnquote(js) ==
  [i \in 1..(Len(js) - 2) |-> IF js[i + 1] = "\\ufffd" THEN ReplacementRune ELSE js[i + 1]]

\* sub occurs in str as a run of consecutive elements
Contains(str, sub) ==
  \E i \in 0..(Len(str) - Len(sub)) : SubSeq(str, i + 1, i + Len(sub)) = sub

ValidUTF8(str) == \A i \in 1..Len(str) : str[i] # InvalidByte

\* the ffmpeg invocation of w's invocation failed to launch or exited non-zero
TranscodeFailed(w) == ffResult[w] # NoResult /\ ffResult[w].err # NoErr

\* C11: when the ffmpeg invocation has failed, some record the invocation
\* reported holds, once decoded, the combined output of ffmpeg unaltered, in
\* its details or in its message.
C11_OutputUnaltered ==
  \A w \in Workers :
    TranscodeFailed(w)
      => \E k \in 1..Len(logs[w]) :
           \/ Contains(JsonUnquote(Marshal(logs[w][k]).json.details), ffResult[w].out)
           \/ Contains(JsonUnquote(Marshal(logs[w][k]).json.error), ffResult[w].out)

\* C11 as amended: when the ffmpeg invocation has failed, the invocation ends
\* in failure and the first record it reported has the combined output at the
\* end of its error message and the error of the invocation as its details; the
\* serialised record gives the output back unaltered when it is valid UTF-8.
C11_OutputInErrorMessage ==
  \A w \in Workers :
    TranscodeFailed(w)
      => /\ pc[w] = "idle" /\ outcome[w] = "failed"
         /\ logs[w] # <<>>
         /\ logs[w][1].error =
              <<"failed to convert video to mpeg-dash, output: ">> \o ffResult[w].out
         /\ logs[w][1].details = ffResult[w].err
         /\ ValidUTF8(ffResult[w].out)
              => JsonUnquote(Marshal(logs[w][1]).json.error) = logs[w][1].error

\* ffmpeg exited non-zero after printing a diagnostic, and the failure was reported
C11_Witness ==
  /\ TranscodeFailed("w1")
  /\ ffResult["w1"].out = <<"Invalid data found when processing input">>
  /\ pc["w1"] = "idle" /\ outcome["w1"] = "failed"
  /\ Len(logs["w1"]) = 2

\* the stage a reported message names
StageOf(message) ==
  CASE Head(message) = "failed to merge chunks" -> "merge"
    [] Head(message) = "failed to create mpeg-dash directory" -> "mkdir"
    [] Head(message) = "failed to convert video to mpeg-dash, output: " -> "ffmpeg"
    [] Head(message) = "failed to remove merged file" -> "remove"
    [] OTHER -> "decode"

\* the stages of processVideo up to and including stage
StagesUpTo(stage) ==
  CASE stage = "merge" -> <<"merge">>
    [] stage = "mkdir" -> <<"merge", "mkdir">>
    [] stage = "ffmpeg" -> <<"merge", "mkdir", "ffmpeg">>
    [] stage = "remove" -> <<"merge", "mkdir", "ffmpeg", "remove">>
    [] OTHER -> <<>>

\* C12: once a stage of an invocation has failed the invocation is over: the
\* stages it has entered are those up to the failed one, ffmpeg was not given
\* anything after a failed merge or directory creation, and the store holds no
\* success record for the task.
C12_FailureStopsPipeline ==
  \A w \in Workers :
    outcome[w] = "failed"
      => /\ pc[w] = "idle"
         /\ logs[w] # <<>>
         /\ stages[w] = StagesUpTo(StageOf(logs[w][1].error))
         /\ StageOf(logs[w][1].error) \in {"decode", "merge", "mkdir"}
              => ffInput[w] = <<"none">> /\ ffResult[w] = NoResult
         /\ ~SelectExists(processed, task[w].VideoID)

\* the ffmpeg invocation failed on a merged file of two bytes or more, and the
\* merged file was not removed
C12_Witness ==
  /\ pc["w1"] = "idle" /\ outcome["w1"] = "failed"
  /\ stages["w1"] = <<"merge", "mkdir", "ffmpeg">>
  /\ Len(ffInput["w1"]) >= 2 /\ ffInput["w1"] # <<"none">>
  /\ Exists(mergedFile(task["w1"]))

\* C13: IsProcessed answers "not processed" only after a lookup that worked: a
\* lookup that failed is not turned into that answer.
C13_LookupFailureNotFalse ==
  \A w \in Workers :
    (seen[w] # NoCall /\ seen[w].res = FALSE) => lookupErr[w] = NoErr

\* C16: every RegisterError call returns to its caller, whatever the record,
\* the error and the answer of the store.
C16_RegisterErrorReturns ==
  \A w \in Workers : regRet[w] \in {"none", "stored", "db error"}

\* C15: every chunk name without an integer has the key -1, no key is below
\* it, and in the order mergeChunks merges in, every such chunk comes before
\* every chunk whose name holds an integer.
C15_NoIntegerFirst ==
  \A w \in Workers :
    /\ \A f \in Glob(task[w].Path) :
         extractNumber(f) >= -1 /\ (~HasInteger(f) => extractNumber(f) = -1)
    /\ \A i, j \in DOMAIN chunks[w] :
         (~HasInteger(chunks[w][i]) /\ HasInteger(chunks[w][j])) => i < j

\* the bytes of the names, in ascending order
CharOrder ==
  <<".chunk", "0", "1", "2", "3", "4", "5", "6", "7", "8", "9", "a", "b", "p", "x">>
CharRank(c) == CHOOSE i \in DOMAIN CharOrder : CharOrder[i] = c

RECURSIVE LexLess(_, _)
\* a < b as strings: the order filepath.Glob lists the names of a directory in
LexLess(a, b) ==
  IF a = <<>> THEN b # <<>>
  ELSE IF b = <<>> THEN FALSE
  ELSE IF Head(a) = Head(b) THEN LexLess(Tail(a), Tail(b))
  ELSE CharRank(Head(a)) < CharRank(Head(b))

\* C17: chunks of equal key are merged in the order of their file names, which
\* is the order filepath.Glob listed them in.
C17_TiesInNameOrder ==
  \A w \in Workers :
    \A i, j \in DOMAIN chunks[w] :
      (i < j /\ extractNumber(chunks[w][i]) = extractNumber(chunks[w][j]))
        => LexLess(Base(chunks[w][i]), Base(chunks[w][j]))

\* C18: an invocation that ended in failure has made one logError call.
C18_ReportedOnce ==
  \A w \in Workers :
    (pc[w] = "idle" /\ outcome[w] = "failed") => Len(logs[w]) = 1

\* C19: a worker holds at most one chunk handle, and holds one only between
\* os.Open and input.Close of one iteration of the merge loop: none when
\* mergeChunks has returned.
C19_ChunkHandlesClosed ==
  \A w \in Workers :
    /\ Cardinality(inFds[w]) <= 1
    /\ pc[w] \notin {"copy", "close"} => inFds[w] = {}

\* the chunk files the directory dir holds
DirChunks(dir) == {f \in DOMAIN fs : \E n \in NameSet : f = ChunkPath(dir, n)}

\* C20: when mergeChunks has succeeded after os.Create found a merged file of
\* an earlier attempt, the merged file is the concatenation of the chunks the
\* directory holds, in an order ascending by key, and nothing else; the merged
\* file is never among the chunks mergeChunks reads.
C20_RetryNotContaminated ==
  \A w \in Workers :
    /\ (MergeSucceeded(w) /\ truncated[w])
         => \E q \in SortSlice(DirChunks(task[w].Path)) :
              fs[mergedFile(task[w])] = Concat(q)
    /\ \A i \in DOMAIN chunks[w] : chunks[w][i] # mergedFile(task[w])

\* mergeChunks has succeeded on two chunks or more over the merged file of an
\* earlier attempt
C20_Witness ==
  /\ MergeSucceeded("w1") /\ truncated["w1"]
  /\ Cardinality(DirChunks(task["w1"].Path)) >= 2
  /\ Len(fs[mergedFile(task["w1"])]) >= 2

\* file f lies under directory dir
Under(dir, f) == Len(f) > Len(dir) /\ SubSeq(f, 1, Len(dir)) = dir

\* the merged files an invocation of w's task produces when it runs alone
Alone(w) == {Concat(q) : q \in SortSlice(DirChunks(task[w].Path))}

\* C14: with two invocations for different tasks interleaved, the merged file
\* of each after its merge, and the input its ffmpeg was given, are those of
\* the task run alone, an invocation that ended without failure has its own
\* manifest and no merged file, and no step of one invocation creates, changes
\* or removes a file under the other's task path.
C14_NoInterference ==
  /\ [](\A w \in Workers :
          /\ MergeSucceeded(w) => fs[mergedFile(task[w])] \in Alone(w)
          /\ ffResult[w] # NoResult => ffInput[w] \in Alone(w)
          /\ (pc[w] = "idle" /\ outcome[w] = "ok")
               => Exists(manifestPath(task[w])) /\ ~Exists(mergedFile(task[w])))
  /\ [][\A w \in Workers :
          (outcome[w] # "none" /\ pc'[w] = pc[w])
            => \A f \in DOMAIN fs \cup DOMAIN fs' :
                 Under(task[w].Path, f)
                   => f \in DOMAIN fs /\ f \in DOMAIN fs' /\ fs'[f] = fs[f]]_vars

\* both invocations are in flight, each after an ffmpeg run on the merge of
\* its own two chunks
C14_Witness ==
  /\ pc["w1"] = "remove" /\ pc["w2"] = "remove"
  /\ task["w1"].Path = TaskDir /\ task["w2"].Path = TaskDir2
  /\ Len(ffInput["w1"]) >= 2 /\ Len(ffInput["w2"]) >= 2
  /\ ffInput["w1"] # ffInput["w2"]

====
